---- MODULE Spec2Model ----
(***************************************************************************)
(* Model of speechbrain/augment/augmenter.py (class Augmenter) and of the  *)
(* way recipes/Voicebank/ASR/transducer/train.py drives it.                *)
(*                                                                         *)
(* A tensor is modelled by its rows (one per batch element) and by the     *)
(* sizes of its remaining axes (dims = shape[1:]).  A row remembers the    *)
(* input example it was derived from (src), the transforms that were       *)
(* applied to it, in order (hist), and the zeros appended by F.pad (pad).  *)
(* A length is a rational multiple num/den of a base length identified by  *)
(* (src, by): the input length of example src when by = None, or the       *)
(* length returned for that example by the transform registered as by.     *)
(***************************************************************************)
EXTENDS Integers, Sequences, FiniteSets, TLC

\* ------------------------------------------------------------------ bounds
MaxBatch == 2
MaxAugs == 3
MaxRepeat == 2
MaxList == 3

\* ------------------------------------------------------- program constants
\* Python's None for an optional integer argument
None == -100
\* default of min_augmentations when None
DefaultMinAugmentations == 1
\* value of num_augmentations recorded by the fast path
FastPathNumAugmentations == 1
\* temporal extent and feature size of the input batches of the model
InputTime == 2
InputFea == 2

\* ------------------------------------------------------------ helpers
Min2(a, b) == IF a < b THEN a ELSE b

Max2(a, b) == IF a > b THEN a ELSE b

\* Python's s[lo:hi] for 0 <= lo, 0 <= hi (out-of-range bounds are clamped)
Slice(s, lo, hi) == SubSeq(s, Min2(lo, Len(s)) + 1, Min2(hi, Len(s)))

\* torch.arange(lo, hi) as a sequence of 0-based indices
Arange(lo, hi) == [i \in 1..Max2(hi - lo, 0) |-> lo + i - 1]

\* tensor[idx] with an index tensor: out-of-range indices raise IndexError
CanIndex(s, idx) == \A i \in 1..Len(idx) : idx[i] < Len(s)

TakeIdx(s, idx) == [i \in 1..Len(idx) |-> s[idx[i] + 1]]

RECURSIVE Flatten(_)
Flatten(ss) == IF ss = <<>> THEN <<>> ELSE Head(ss) \o Flatten(Tail(ss))

RECURSIVE Repeat(_, _)
Repeat(s, n) == IF n <= 0 THEN <<>> ELSE s \o Repeat(s, n - 1)

SeqMax(s) == CHOOSE m \in {s[i] : i \in 1..Len(s)} : \A i \in 1..Len(s) : s[i] <= m

\* all orders random.shuffle can leave a list in
Permutations1(s) ==
  { [i \in 1..Len(s) |-> s[p[i]]] :
      p \in { q \in [1..Len(s) -> 1..Len(s)] :
                \A i, j \in 1..Len(s) : q[i] = q[j] => i = j } }

\* ------------------------------------------------------------ tensors
NoPad == [t |-> 0, f |-> 0]

\* the input batch: B rows of rank `rank` (2: [B,T]; 3: [B,T,F])
InputTensor(B, rank) ==
  [rows |-> [i \in 1..B |-> [src |-> i - 1, hist |-> <<>>, pad |-> NoPad]],
   dims |-> IF rank = 2 THEN <<InputTime>> ELSE <<InputTime, InputFea>>]

InputLengths(B) ==
  [i \in 1..B |-> [src |-> i - 1, by |-> None, num |-> 1, den |-> 1]]

SliceTensorMut(x, lo, hi) ==
  [x EXCEPT !.rows = SubSeq(x.rows, Min2(lo, Len(x.rows)) + 1,
                            Min2(hi + 1, Len(x.rows)))]

\* x[lo:hi]
SliceTensor(x, lo, hi) == [x EXCEPT !.rows = Slice(x.rows, lo, hi)]

TakeTensor(x, idx) == [x EXCEPT !.rows = TakeIdx(x.rows, idx)]

\* F.pad(output, (0, n)): n zeros appended on the right of the LAST axis
F_pad(x, n) ==
  LET r == Len(x.dims)
  IN  [rows |-> [i \in 1..Len(x.rows) |->
                   IF r = 1
                   THEN [x.rows[i] EXCEPT !.pad.t = @ + n]
                   ELSE [x.rows[i] EXCEPT !.pad.f = @ + n]],
       dims |-> [x.dims EXCEPT ![r] = @ + n]]

\* length * (ratio_num / ratio_den)
ScaleLengths(lens, rnum, rden) ==
  [i \in 1..Len(lens) |-> [lens[i] EXCEPT !.num = @ * rnum, !.den = @ * rden]]

ConcatScaleMut(lens, own, max_len) == lens

\* length * (output.shape[1] / max_len)
ConcatScale(lens, own, max_len) == ScaleLengths(lens, own, max_len)

\* F.pad(output, (0, max_len - output.shape[1]))
ConcatPad(x, max_len) == F_pad(x, max_len - x.dims[1])

\* torch.cat(augment_lst, dim=0), torch.cat(augment_len_lst, dim=0) of the padded
\* tensors and the rescaled lengths: the shapes must agree outside the batch axis
concatenate_cat(padded, lens) ==
  IF \E i \in 1..Len(padded) : padded[i].dims # padded[1].dims
  THEN [status |-> "RuntimeError", x |-> <<>>, lengths |-> <<>>]
  ELSE [status |-> "ok",
        x |-> [rows |-> Flatten([i \in 1..Len(padded) |-> padded[i].rows]),
               dims |-> padded[1].dims],
        lengths |-> Flatten(lens)]

\* the rescaling and the padding of concatenate_outputs, for the max_len found
concatenate_padded(augment_lst, augment_len_lst, max_len) ==
  IF max_len = 0
  THEN [status |-> "ZeroDivisionError", x |-> <<>>, lengths |-> <<>>]
  ELSE concatenate_cat(
         [i \in 1..Len(augment_lst) |-> ConcatPad(augment_lst[i], max_len)],
         [i \in 1..Min2(Len(augment_lst), Len(augment_len_lst)) |->
            ConcatScale(augment_len_lst[i], augment_lst[i].dims[1], max_len)])

\* Augmenter.concatenate_outputs
concatenate_outputs(augment_lst, augment_len_lst) ==
  IF augment_lst = <<>>
  THEN [status |-> "ValueError", x |-> <<>>, lengths |-> <<>>]
  ELSE concatenate_padded(
         augment_lst, augment_len_lst,
         SeqMax([i \in 1..Len(augment_lst) |-> augment_lst[i].dims[1]]))

\* ------------------------------------------------------------ transforms
\* The classes of transform the model registers.  "Drop" stands for a transform
\* whose forward takes the tensor only and returns a tensor of the same shape;
\* "Speed" for one whose forward takes lengths and returns (tensor, lengths)
\* with a longer temporal axis; "Triple" for one that returns a 3-tuple.
TransformClasses == {"Drop", "Speed", "Triple"}

\* lengths_arg_exists(aug_fun.forward)
lengths_arg_exists(cls) == cls = "Speed"

ReturnsTuple(cls) == cls \in {"Speed", "Triple"}

\* len(out) of a transform that returns a tuple
TupleLen(cls) == IF cls = "Triple" THEN 3 ELSE 2

TimeDelta(cls) == IF cls = "Speed" THEN 1 ELSE 0

\* a transform that overwrites the tensor it is handed and returns it, as
\* SpectrogramDrop does with masked_fill_ and Warping with a slice assignment
OverwritesArgument(cls) == cls = "Drop"

\* a transform that overwrites the lengths it is handed: the transforms are
\* arbitrary callables, and the ones that take lengths are taken to do so
OverwritesLengths(cls) == lengths_arg_exists(cls)

\* augment_fun(x[, lengths=...]) for the transform registered under `name`
\* (its position in the list) of class cls: [out, is_tuple, out_lengths]
augment_fun(name, cls, x) ==
  [out |-> [rows |-> [i \in 1..Len(x.rows) |->
                        [x.rows[i] EXCEPT !.hist = Append(@, name)]],
            dims |-> [x.dims EXCEPT ![1] = @ + TimeDelta(cls)]],
   is_tuple |-> ReturnsTuple(cls),
   tuple_len |-> TupleLen(cls),
   in_place |-> OverwritesArgument(cls),
   in_place_lengths |-> OverwritesLengths(cls),
   out_lengths |-> [i \in 1..Len(x.rows) |->
                      [src |-> x.rows[i].src, by |-> name, num |-> 1, den |-> 1]]]

\* ------------------------------------------------------------ construction
check_min_max_augmentationsMut(min_a, max_a, n) ==
  LET min1 == IF min_a = None THEN DefaultMinAugmentations ELSE min_a
      max1 == IF max_a = None THEN n ELSE max_a
  IN  [status |-> IF max1 < min1 \/ min1 < 0 \/ max1 < 0
                  THEN "ValueError" ELSE "ok",
       min_augmentations |-> min1,
       max_augmentations |-> max1]

\* Augmenter.check_min_max_augmentations; n = len(self.augmentations)
check_min_max_augmentations(min_a, max_a, n) ==
  LET min1 == IF min_a = None THEN DefaultMinAugmentations ELSE min_a
      max1 == IF max_a = None THEN n ELSE max_a
      max2 == IF max1 > n THEN n ELSE max1
      min2 == IF min1 > n THEN n ELSE min1
  IN  [status |-> IF max2 < min2 \/ min2 < 0 \/ max2 < 0
                  THEN "ValueError" ELSE "ok",
       min_augmentations |-> min2,
       max_augmentations |-> max2]

InvertedIndicesMut(start_index, end_index) ==
  end_index # None /\ end_index + 1 < start_index

\* "if self.augment_end_index is not None: if self.augment_end_index <
\* self.augment_start_index", and the same test of the concat indices
InvertedIndices(start_index, end_index) ==
  end_index # None /\ end_index < start_index

\* Augmenter.__init__
init(a) ==
  LET mm == check_min_max_augmentations(
              a.min_augmentations, a.max_augmentations, Len(a.augmentations))
      fields == [min_augmentations |-> mm.min_augmentations,
                 max_augmentations |-> mm.max_augmentations,
                 augment_end_index |-> a.augment_end_index,
                 concat_end_index |-> a.concat_end_index,
                 N_augment |-> None,
                 num_augmentations |-> None]
      bad == \/ mm.status # "ok"
             \/ ~a.repeat_is_int
             \/ a.repeat_augment < 0
             \/ Len(a.augmentations) = 0
             \/ InvertedIndices(a.augment_start_index, a.augment_end_index)
             \/ InvertedIndices(a.concat_start_index, a.concat_end_index)
  IN  [status |-> IF bad THEN "ValueError" ELSE "ok", fields |-> fields]

\* ------------------------------------------------------------ augment
\* torch.linspace(start, end, steps).to(torch.int), as a 1-based sequence
linspace_intMut(start, end, steps) ==
  [j \in 1..steps |->
     IF steps = 1 THEN start
     ELSE start + (j - 1) * ((end - start) \div (steps - 1))]

linspace_int(start, end, steps) ==
  [j \in 1..steps |->
     IF steps = 1 THEN start
     ELSE start + ((j - 1) * (end - start)) \div (steps - 1)]

\* idx_start, idx_stop of the k-th (1-based) of K selected transforms on a
\* batch of n rows
IdxRange(a, n, K, k) ==
  IF a.parallel_augment /\ a.parallel_augment_fixed_bs
  THEN [start |-> linspace_int(0, n, K + 1)[k],
        stop |-> linspace_int(0, n, K + 1)[k + 1]]
  ELSE [start |-> 0, stop |-> n]

\* idx = torch.arange(n)[idx_start:idx_stop], with the range r it was cut to
IdxOf(r, n) ==
  [start |-> r.start, stop |-> r.stop,
   idx |-> Slice(Arange(0, n), r.start, r.stop)]

LengthsAtMut(out_lengths, idx) == out_lengths

\* out_lengths[idx]
LengthsAt(out_lengths, idx) == TakeIdx(out_lengths, idx)

\* the call of a transform with what came of it: the lengths it returned (if
\* it returned a 2-tuple), whether the iteration completed, and the lengths the
\* iteration recorded for the rows of the call (next_lengths, or the entry
\* appended to output_lengths)
Recorded(call, res, completed, lengths) ==
  [name |-> call.name, start |-> call.start, stop |-> call.stop,
   with_lengths |-> call.with_lengths, input |-> call.input,
   in_lengths |-> call.in_lengths,
   returned |-> IF res.is_tuple /\ res.tuple_len = 2 THEN res.out_lengths
                ELSE <<>>,
   completed |-> completed, lengths |-> lengths]

IndexedSharesMut(shares, idx) == shares

\* whether next_input[idx, ...] shares its storage with the caller's batch,
\* given that next_input does: idx is an index tensor, and indexing with a
\* tensor returns a copy
IndexedShares(shares, idx) == FALSE

\* what a transform that overwrites its argument leaves in the storage of the
\* caller's batch: nothing unless the argument shares that storage (wrote),
\* and then the rows idx hold the rows the transform wrote
WriteBack(st, idx, rows, wrote) ==
  IF ~wrote THEN [st EXCEPT !.wrote = FALSE]
  ELSE [st EXCEPT
          !.wrote = TRUE,
          !.storage = [i \in 1..Len(@) |->
                         IF \E j \in 1..Len(idx) : idx[j] = i - 1
                         THEN rows[CHOOSE j \in 1..Len(idx) : idx[j] = i - 1]
                         ELSE @[i]],
          !.next_input.rows =
                      [i \in 1..Len(@) |->
                         IF \E j \in 1..Len(idx) : idx[j] = i - 1
                         THEN rows[CHOOSE j \in 1..Len(idx) : idx[j] = i - 1]
                         ELSE @[i]]]

\* the same for the lengths: next_lengths[idx] handed to a transform that
\* overwrites its lengths
WriteBackLengths(st, idx, lens, wrote) ==
  IF ~wrote THEN [st EXCEPT !.wrote_lengths = FALSE]
  ELSE [st EXCEPT
          !.wrote_lengths = TRUE,
          !.len_storage = [i \in 1..Len(@) |->
                             IF \E j \in 1..Len(idx) : idx[j] = i - 1
                             THEN lens[CHOOSE j \in 1..Len(idx) : idx[j] = i - 1]
                             ELSE @[i]],
          !.next_lengths = [i \in 1..Len(@) |->
                              IF \E j \in 1..Len(idx) : idx[j] = i - 1
                              THEN lens[CHOOSE j \in 1..Len(idx) : idx[j] = i - 1]
                              ELSE @[i]]]

\* the end of one iteration: the result res of the transform is unpacked, and
\* kept as the next input (sequential) or appended to the outputs (parallel)
augment_store(a, st, ix, call, res) ==
  LET out_lengths == IF res.is_tuple THEN res.out_lengths ELSE st.out_lengths
  IN
  IF res.is_tuple /\ res.tuple_len # 2
  THEN [st EXCEPT !.status = "ValueError",
                  !.calls = Append(@, Recorded(call, res, FALSE, <<>>))]
  ELSE IF ~CanIndex(out_lengths, ix.idx)
  THEN [st EXCEPT !.status = "IndexError",
                  !.calls = Append(@, Recorded(call, res, FALSE, <<>>))]
  ELSE IF ~a.parallel_augment
  THEN [st EXCEPT !.out = res.out, !.out_lengths = out_lengths,
                  !.next_input = res.out,
                  !.shares = st.wrote,
                  !.len_shares = IndexedShares(st.wrote_lengths, ix.idx),
                  !.next_lengths = LengthsAt(out_lengths, ix.idx),
                  !.calls = Append(@, Recorded(call, res, TRUE,
                                               LengthsAt(out_lengths, ix.idx)))]
  ELSE [st EXCEPT !.out = res.out, !.out_lengths = out_lengths,
                  !.output = Append(@, res.out),
                  !.output_lengths = Append(@, LengthsAt(out_lengths, ix.idx)),
                  !.calls = Append(@, Recorded(call, res, TRUE,
                                               LengthsAt(out_lengths, ix.idx)))]

\* the transform has run on next_input[idx, ...]: what it wrote in place is
\* in the storage its argument shares before its result is unpacked
augment_result(a, st, ix, call, res) ==
  augment_store(
    a,
    WriteBackLengths(
      WriteBack(st, ix.idx, res.out.rows,
                res.in_place /\ IndexedShares(st.shares, ix.idx)),
      ix.idx, res.out_lengths,
      res.in_place_lengths /\ IndexedShares(st.len_shares, ix.idx)),
    ix, call, res)

\* the call of one iteration: the transform augment_name, of class cls, on the
\* rows ix.idx of next_input, with next_lengths[idx] if it takes lengths
augment_call(a, st, augment_name, cls, ix) ==
  IF ~( /\ CanIndex(st.next_input.rows, ix.idx)
        /\ lengths_arg_exists(cls) => CanIndex(st.next_lengths, ix.idx) )
  THEN [st EXCEPT !.status = "IndexError"]
  ELSE augment_result(
         a, st, ix,
         [name |-> augment_name, start |-> ix.start, stop |-> ix.stop,
          with_lengths |-> lengths_arg_exists(cls),
          input |-> TakeTensor(st.next_input, ix.idx).rows,
          in_lengths |-> IF CanIndex(st.next_lengths, ix.idx)
                         THEN TakeIdx(st.next_lengths, ix.idx) ELSE <<>>],
         augment_fun(augment_name, cls, TakeTensor(st.next_input, ix.idx)))

\* one iteration of the loop of Augmenter.augment
augment_step(a, x, selected_augmentations, k, st) ==
  augment_call(a, st, selected_augmentations[k],
               a.augmentations[selected_augmentations[k] + 1],
               IdxOf(IdxRange(a, Len(x.rows), Len(selected_augmentations), k),
                     Len(x.rows)))

RECURSIVE augment_loop(_, _, _, _, _)
augment_loop(a, x, selected_augmentations, k, st) ==
  IF k > Len(selected_augmentations) \/ st.status # "ok" THEN st
  ELSE augment_loop(a, x, selected_augmentations, k + 1,
                    augment_step(a, x, selected_augmentations, k, st))

\* the outcome r of concatenate_outputs, with the calls that led to it
WithCalls(r, calls, storage, len_storage) ==
  [status |-> r.status, x |-> r.x, lengths |-> r.lengths, calls |-> calls,
   storage |-> storage, len_storage |-> len_storage]

\* what Augmenter.augment returns once its loop has left the state st
augment_return(a, selected_augmentations, st) ==
  IF st.status # "ok"
  THEN [status |-> st.status, x |-> <<>>, lengths |-> <<>>, calls |-> st.calls,
        storage |-> st.storage, len_storage |-> st.len_storage]
  ELSE IF ~a.parallel_augment /\ selected_augmentations = <<>>
  THEN [status |-> "UnboundLocalError", x |-> <<>>, lengths |-> <<>>,
        calls |-> st.calls, storage |-> st.storage,
        len_storage |-> st.len_storage]
  ELSE IF a.parallel_augment
  THEN WithCalls(concatenate_outputs(st.output, st.output_lengths), st.calls,
                 st.storage, st.len_storage)
  ELSE [status |-> "ok", x |-> st.out, lengths |-> st.out_lengths,
        calls |-> st.calls, storage |-> st.storage,
        len_storage |-> st.len_storage]

\* Augmenter.augment: [status, x, lengths, calls, storage, len_storage]; x and
\* lengths are slices of the caller's batch and lengths, so next_input and
\* next_lengths share their storage at first, and storage and len_storage are
\* what the rows of x and of lengths hold when augment is left
augment(a, x, lengths, selected_augmentations) ==
  augment_return(
    a, selected_augmentations,
    augment_loop(a, x, selected_augmentations, 1,
                 [status |-> "ok", next_input |-> x, next_lengths |-> lengths,
                  out |-> x, out_lengths |-> lengths,
                  output |-> <<>>, output_lengths |-> <<>>, calls |-> <<>>,
                  storage |-> x.rows, shares |-> TRUE, wrote |-> FALSE,
                  len_storage |-> lengths, len_shares |-> TRUE,
                  wrote_lengths |-> FALSE]))

\* ------------------------------------------------------------ forward
\* list(self.augmentations.keys()): the registry names, in insertion order
RegistryKeys(a) == Arange(0, Len(a.augmentations))

SelectFirstMut(augmentations_lst, N) ==
  SubSeq(augmentations_lst, Len(augmentations_lst) - N + 1, Len(augmentations_lst))

\* augmentations_lst[0 : self.N_augment]
SelectFirst(augmentations_lst, N) == Slice(augmentations_lst, 0, N)

\* the selection handed to self.augment by repetition i (0-based) of the loop
PassSelection(selected_augmentations, i) == selected_augmentations

NoAugmentationMut(a, N) == N = 0 \/ Len(a.augmentations) = 0

\* the "No augmentation" test of forward
NoAugmentation(a, N) ==
  a.repeat_augment = 0 \/ N = 0 \/ Len(a.augmentations) = 0

NoResult == [status |-> "none", x |-> <<>>, lengths |-> <<>>,
             passes |-> <<>>, selected |-> <<>>, fast |-> FALSE,
             x_after |-> <<>>, lengths_after |-> <<>>]

\* the outcome r of one pass, with the selection it was handed
WithSelected(r, sel) ==
  [status |-> r.status, x |-> r.x, lengths |-> r.lengths, calls |-> r.calls,
   storage |-> r.storage, len_storage |-> r.len_storage, selected |-> sel]

\* the passes that raised, and the first of them
FailedPasses(passes) == {i \in 1..Len(passes) : passes[i].status # "ok"}

FirstFailed(passes) ==
  CHOOSE i \in FailedPasses(passes) : \A j \in FailedPasses(passes) : i <= j

\* the caller's batch (or lengths) once the passes are made: the rows of the
\* augment window hold what the last pass left in their storage
CallerAfter(a, original, storage) ==
  [i \in 1..Len(original) |->
     IF i > a.augment_start_index /\ i - a.augment_start_index <= Len(storage)
     THEN storage[i - a.augment_start_index]
     ELSE original[i]]

\* the end of forward: the concatenation c of the original rows and the passes
forward_return(s, selected_augmentations, passes, c, after, len_after) ==
  [res |-> [status |-> c.status, x |-> c.x, lengths |-> c.lengths,
            passes |-> passes, selected |-> selected_augmentations,
            fast |-> FALSE, x_after |-> after.rows,
            lengths_after |-> len_after],
   fields |-> s]

\* forward once its passes are made: the first pass that raised ends the call,
\* otherwise the rows of the concat window (slices of the caller's batch and
\* lengths, read when they are concatenated) and the outputs of the passes are
\* concatenated
forward_concatenate(a, s, selected_augmentations, after, len_after, passes) ==
  IF FailedPasses(passes) # {}
  THEN [res |-> [NoResult EXCEPT
                   !.status = passes[FirstFailed(passes)].status,
                   !.passes = SubSeq(passes, 1, FirstFailed(passes)),
                   !.selected = selected_augmentations,
                   !.x_after = after.rows,
                   !.lengths_after = len_after],
        fields |-> s]
  ELSE forward_return(
         s, selected_augmentations, passes,
         concatenate_outputs(
           (IF a.concat_original
            THEN <<SliceTensor(after, a.concat_start_index, s.concat_end_index)>>
            ELSE <<>>) \o [i \in 1..Len(passes) |-> passes[i].x],
           (IF a.concat_original
            THEN <<Slice(len_after, a.concat_start_index, s.concat_end_index)>>
            ELSE <<>>) \o [i \in 1..Len(passes) |-> passes[i].lengths]),
         after, len_after)

\* one more pass after the passes prev: x and lengths are slices of the
\* caller's batch and lengths, so the pass reads what the passes before it
\* left in their storage
forward_pass(a, x, lengths, selected_augmentations, prev) ==
  Append(prev,
         WithSelected(
           augment(a,
                   IF prev = <<>> THEN x
                   ELSE [x EXCEPT !.rows = prev[Len(prev)].storage],
                   IF prev = <<>> THEN lengths
                   ELSE prev[Len(prev)].len_storage,
                   PassSelection(selected_augmentations, Len(prev))),
           PassSelection(selected_augmentations, Len(prev))))

\* the first n of the repeat_augment passes of forward over the augment window x
RECURSIVE forward_passes(_, _, _, _, _)
forward_passes(a, x, lengths, selected_augmentations, n) ==
  IF n <= 0 THEN <<>>
  ELSE forward_pass(a, x, lengths, selected_augmentations,
                    forward_passes(a, x, lengths, selected_augmentations, n - 1))

\* forward with its passes made
forward_collect(a, s, x_original, len_original, selected_augmentations, passes) ==
  forward_concatenate(
    a, s, selected_augmentations,
    IF passes = <<>> THEN x_original
    ELSE [x_original EXCEPT
            !.rows = CallerAfter(a, @, passes[Len(passes)].storage)],
    IF passes = <<>> THEN len_original
    ELSE CallerAfter(a, len_original, passes[Len(passes)].len_storage),
    passes)

\* forward from the augment window on: the fast path, or the original rows of
\* the concat window followed by the passes
forward_augment(a, s, x_original, len_original, x, lengths, selected_augmentations) ==
  IF NoAugmentation(a, s.N_augment)
  THEN [res |-> [NoResult EXCEPT !.status = "ok", !.x = x, !.lengths = lengths,
                                 !.fast = TRUE, !.x_after = x_original.rows,
                                 !.lengths_after = len_original],
        fields |-> [s EXCEPT !.num_augmentations = FastPathNumAugmentations]]
  ELSE forward_collect(
         a, s, x_original, len_original, selected_augmentations,
         forward_passes(a, x, lengths, selected_augmentations, a.repeat_augment))

\* forward once augment_end_index is set: the checks of the indices, the
\* default of concat_end_index, the augment window and the selection
forward_window(a, s, B, x_original, len_original, N, lst) ==
  IF s.augment_end_index > B \/ a.augment_start_index > B
  THEN [res |-> [NoResult EXCEPT !.status = "ValueError",
                                 !.x_after = x_original.rows,
                                 !.lengths_after = len_original],
        fields |-> s]
  ELSE IF \/ (IF s.concat_end_index = None THEN B ELSE s.concat_end_index) > B
          \/ a.concat_start_index > B
  THEN [res |-> [NoResult EXCEPT !.status = "ValueError",
                                 !.x_after = x_original.rows,
                                 !.lengths_after = len_original],
        fields |-> [s EXCEPT !.concat_end_index = IF @ = None THEN B ELSE @]]
  ELSE forward_augment(
         a,
         [s EXCEPT !.concat_end_index = IF @ = None THEN B ELSE @,
                   !.N_augment = N],
         x_original, len_original,
         SliceTensor(x_original, a.augment_start_index, s.augment_end_index),
         Slice(len_original, a.augment_start_index, s.augment_end_index),
         SelectFirst(lst, N))

\* Augmenter.forward on a batch of B rows; N is the value torch.randint draws,
\* lst the order of the registry names after the optional random.shuffle.
\* Returns the outcome and the instance fields the call leaves behind.
forward(a, s, B, rank, N, lst) ==
  forward_window(
    a, [s EXCEPT !.augment_end_index = IF @ = None THEN B ELSE @],
    B, InputTensor(B, rank), InputLengths(B), N, lst)

\* ------------------------------------------------------------ replicate_labels
\* torch.cat([selected_labels] * self.N_augment, dim=0)
TileLabels(selected_labels, N) == Repeat(selected_labels, N)

\* Augmenter.replicate_labels; labels is the sequence of the labels' rows
replicate_labels(a, s, labels) ==
  LET head == IF a.concat_original
              THEN <<Slice(labels, a.concat_start_index, s.concat_end_index)>>
              ELSE <<>>
      selected_labels == Slice(labels, a.augment_start_index, s.augment_end_index)
      tiled == TileLabels(selected_labels, s.N_augment)
      augmented_labels ==
        head \o [i \in 1..a.repeat_augment |->
                   IF a.parallel_augment THEN tiled ELSE selected_labels]
  IN
  IF a.parallel_augment /\ s.N_augment = 0
  THEN [status |-> "RuntimeError", labels |-> <<>>]
  ELSE IF augmented_labels = <<>>
  THEN [status |-> "RuntimeError", labels |-> <<>>]
  ELSE [status |-> "ok", labels |-> Flatten(augmented_labels)]

\* ------------------------------------------------------------ state
VARIABLES
  args,   \* the arguments the Augmenter is constructed with
  phase,  \* "new" before __init__, then "ready", or "rejected" if it raised
  self,   \* the instance fields that __init__ and forward assign
  pc,     \* where the training step is: "forward", "labels", "done", or "halt" after a raise
  fwd,    \* the last forward call: its batch size and its outcome
  lab,    \* the outcome of replicate_labels after the last forward call
  cat,    \* a direct call of concatenate_outputs: its arguments and its outcome
  fd      \* a transform of freq_domain.py: its object, its argument and its outcome

vars == <<args, phase, self, pc, fwd, lab, cat, fd>>

NoFields == [min_augmentations |-> None, max_augmentations |-> None,
             augment_end_index |-> None, concat_end_index |-> None,
             N_augment |-> None, num_augmentations |-> None]

NoCall == [B |-> None, rank |-> None, res |-> NoResult]

NoLabels == [status |-> "none", labels |-> <<>>]

\* no transform of freq_domain.py is under test
NoFd == [cls |-> "none"]

NoCat == [augment_lst |-> <<>>, augment_len_lst |-> <<>>,
          out |-> [status |-> "none", x |-> <<>>, lengths |-> <<>>]]

\* the transform lists of the model: n transforms, all "Drop" except the ones
\* the pattern names
AugList(n, pattern) ==
  [i \in 1..n |->
     IF \/ pattern = "allSpeed"
        \/ pattern = "speedFirst" /\ i = 1
        \/ pattern = "speedLast" /\ i = n
     THEN "Speed"
     ELSE IF pattern = "tripleLast" /\ i = n THEN "Triple" ELSE "Drop"]

AugLists(sizes, patterns) == { AugList(n, p) : n \in sizes, p \in patterns }

\* the batch windows of the model, <<augment_start_index, augment_end_index,
\* concat_start_index, concat_end_index>>; the concat window is left at its
\* default where concat_original is off
Windows(concat_original) ==
  IF concat_original
  THEN {<<0, None, 0, None>>, <<1, None, 0, 1>>, <<0, 1, 1, None>>,
        <<1, None, 0, None>>, <<0, None, 0, 1>>}
  ELSE {<<0, None, 0, None>>, <<1, None, 0, None>>, <<0, 1, 0, None>>,
        <<1, 1, 0, None>>}

DefaultWindows(concat_original) == {<<0, None, 0, None>>}

\* the constructor arguments with the given modes, counts, transform lists and
\* batch windows (windows[co]: the windows used where concat_original = co)
ArgsOf(modes, concats, shuffles, mins, maxs, repeats, lists, windows) ==
  UNION {
    { [parallel_augment |-> m[1],
       parallel_augment_fixed_bs |-> m[2],
       concat_original |-> co,
       min_augmentations |-> mn,
       max_augmentations |-> mx,
       shuffle_augmentations |-> sh,
       repeat_augment |-> rp[1],
       repeat_is_int |-> rp[2],
       augment_start_index |-> w[1],
       augment_end_index |-> w[2],
       concat_start_index |-> w[3],
       concat_end_index |-> w[4],
       augmentations |-> l] :
        m \in modes, sh \in shuffles, mn \in mins, mx \in maxs,
        rp \in repeats, l \in lists, w \in windows[co] } : co \in concats }

Modes == {<<FALSE, FALSE>>, <<TRUE, FALSE>>, <<TRUE, TRUE>>}

IntRepeats(S) == {<<r, TRUE>> : r \in S}

\* the configurations of Spec: accepted by __init__, transforms in list order,
\* N_augment drawn from 0..len(augmentations)
ArgsMain ==
  ArgsOf(Modes, BOOLEAN, {FALSE}, {0}, {None}, IntRepeats(0..MaxRepeat),
         AugLists({MaxAugs},
                  {"allDrop", "speedFirst", "speedLast", "tripleLast"}),
         [co \in BOOLEAN |-> Windows(co)])

InitWith(S) ==
  /\ args \in S
  /\ phase = "new"
  /\ self = NoFields
  /\ pc = "forward"
  /\ fwd = NoCall
  /\ lab = NoLabels
  /\ cat = NoCat
  /\ fd = NoFd

Init == InitWith(ArgsMain)

\* the batch windows of SpecCtor: the default, a shifted one, an inverted
\* augment window, an inverted concat window, and windows with an index of
\* MaxBatch, larger than the smaller batches
CtorWindows(concat_original) ==
  {<<0, None, 0, None>>, <<1, None, 0, None>>, <<1, 0, 0, None>>,
   <<0, None, 1, 0>>,
   <<0, MaxBatch, 0, None>>, <<MaxBatch, None, 0, None>>,
   <<0, None, 0, MaxBatch>>, <<0, None, MaxBatch, None>>}

\* the configurations of SpecCtor: what __init__ accepts and what it rejects
ArgsCtor ==
  ArgsOf({<<FALSE, FALSE>>, <<TRUE, FALSE>>}, BOOLEAN, {FALSE},
         {None, -1, 0, MaxAugs + 2}, {None, -1, 0, 1, MaxAugs + 1},
         IntRepeats({-1, 0, 1}) \cup {<<1, FALSE>>},
         AugLists({0, 1, MaxAugs}, {"allDrop"}), [co \in BOOLEAN |-> CtorWindows(co)])

InitCtor == InitWith(ArgsCtor)

\* the configurations of SpecSelect: with and without shuffling, sequential and
\* parallel, on lists of two and of MaxAugs transforms
ArgsSelect ==
  ArgsOf({<<FALSE, FALSE>>, <<TRUE, FALSE>>}, {FALSE}, BOOLEAN,
         {None, 2}, {None, 2}, IntRepeats(1..MaxRepeat),
         AugLists({2, MaxAugs}, {"allDrop", "speedLast"}), [co \in BOOLEAN |-> DefaultWindows(co)])

InitSelect == InitWith(ArgsSelect)

\* aug = Augmenter(**args)
Construct ==
  /\ phase = "new"
  /\ \E r \in {init(args)} :
         /\ phase' = IF r.status = "ok" THEN "ready" ELSE "rejected"
         /\ self' = r.fields
  /\ UNCHANGED <<args, pc, fwd, lab, cat, fd>>

\* ASR_Brain.compute_forward: wavs, wav_lens = wav_augment(wavs, wav_lens) on a
\* batch of B examples; an exception ends the training
Forward ==
  /\ phase = "ready"
  /\ pc = "forward"
  /\ \E B \in 1..MaxBatch, rank \in {2, 3},
        N \in self.min_augmentations..self.max_augmentations,
        lst \in IF args.shuffle_augmentations
                THEN Permutations1(RegistryKeys(args))
                ELSE {RegistryKeys(args)} :
       \E r \in {forward(args, self, B, rank, N, lst)} :
           /\ fwd' = [B |-> B, rank |-> rank, res |-> r.res]
           /\ self' = r.fields
           /\ pc' = IF r.res.status = "ok" THEN "labels" ELSE "halt"
  /\ lab' = NoLabels
  /\ UNCHANGED <<args, phase, cat, fd>>

\* ASR_Brain.compute_forward: phns = wav_augment.replicate_labels(phns), on the
\* labels of the batch that forward was just given
ReplicateLabels ==
  /\ phase = "ready"
  /\ pc = "labels"
  /\ \E r \in {replicate_labels(args, self, Arange(0, fwd.B))} :
         /\ lab' = r
         /\ pc' = IF r.status = "ok" THEN "done" ELSE "halt"
  /\ UNCHANGED <<args, phase, self, fwd, cat, fd>>

\* ASR_Brain.compute_forward returns: its locals are gone, the Augmenter keeps
\* its fields for the next batch
Return ==
  /\ pc = "done"
  /\ pc' = "forward"
  /\ fwd' = NoCall
  /\ lab' = NoLabels
  /\ UNCHANGED <<args, phase, self, cat, fd>>

Next == Construct \/ Forward \/ ReplicateLabels \/ Return

Spec == Init /\ [][Next]_vars

SpecCtor == InitCtor /\ [][Next]_vars

SpecSelect == InitSelect /\ [][Next]_vars

\* ------------------------------------------------- concatenate_outputs alone
\* temporal extents of the tensors handed to concatenate_outputs
TimeExtents == {5, 8}

\* the i-th tensor of a list: b rows of temporal extent T, and its lengths
CatTensor(i, b, T, rank) ==
  [rows |-> [j \in 1..b |->
               [src |-> (i - 1) * (MaxBatch + 1) + j - 1, hist |-> <<>>,
                pad |-> NoPad]],
   dims |-> IF rank = 2 THEN <<T>> ELSE <<T, InputFea>>]

CatLengths(i, b) ==
  [j \in 1..b |-> [src |-> (i - 1) * (MaxBatch + 1) + j - 1, by |-> None,
                   num |-> 1, den |-> 1]]

DefaultArgs ==
  [parallel_augment |-> FALSE, parallel_augment_fixed_bs |-> FALSE,
   concat_original |-> FALSE, min_augmentations |-> None,
   max_augmentations |-> None, shuffle_augmentations |-> FALSE,
   repeat_augment |-> 1, repeat_is_int |-> TRUE,
   augment_start_index |-> 0, augment_end_index |-> None,
   concat_start_index |-> 0, concat_end_index |-> None,
   augmentations |-> <<"Drop">>]

\* the arguments of a call: 1..MaxList tensors of one rank, each with its own
\* batch size and temporal extent, and one length per row
InitCat ==
  /\ args = DefaultArgs
  /\ phase = "new"
  /\ self = NoFields
  /\ pc = "forward"
  /\ fwd = NoCall
  /\ lab = NoLabels
  /\ fd = NoFd
  /\ \E n \in 1..MaxList, rank \in {2, 3} :
       \E bs \in [1..n -> 0..MaxBatch], Ts \in [1..n -> TimeExtents] :
         cat = [augment_lst |-> [i \in 1..n |-> CatTensor(i, bs[i], Ts[i], rank)],
                augment_len_lst |-> [i \in 1..n |-> CatLengths(i, bs[i])],
                out |-> NoCat.out]

\* output, output_lengths = self.concatenate_outputs(augment_lst, augment_len_lst)
ConcatenateOutputs ==
  /\ cat.augment_lst # <<>>
  /\ cat.out.status = "none"
  /\ cat' = [cat EXCEPT
               !.out = concatenate_outputs(cat.augment_lst, cat.augment_len_lst)]
  /\ UNCHANGED <<args, phase, self, pc, fwd, lab, fd>>

NextCat == ConcatenateOutputs

SpecCat == InitCat /\ [][NextCat]_vars

\* ------------------------------------------------------------ properties
\* forward has returned (it did not raise)
Returned == fwd.res.status = "ok"

\* batch size of the tensor forward returned
OutBatch == Len(fwd.res.x.rows)

\* size of the augment window [augment_start_index, augment_end_index) and of
\* the concat window of the call, from the fields the call left on the instance
AugWindow == self.augment_end_index - args.augment_start_index

ConcatWindow == self.concat_end_index - args.concat_start_index

\* C1: replicate_labels, called right after forward on the labels of the input
\* batch, returns labels whose batch size is the batch size forward returned.
C1_LabelsMatchForward ==
  (Returned /\ lab.status # "none") =>
     (lab.status = "ok" /\ Len(lab.labels) = OutBatch)

\* a fixed-batch-size parallel call on two examples with N_augment = 2 that
\* returned two rows, after which replicate_labels returned four labels
C1_Witness ==
  /\ Returned /\ lab.status = "ok"
  /\ args.parallel_augment_fixed_bs /\ ~args.concat_original
  /\ args.repeat_augment = 1 /\ self.N_augment = 2
  /\ fwd.B = 2 /\ OutBatch = 2
  /\ lab.labels = <<0, 1, 0, 1>>

\* C2: every (tensor, lengths) pair that forward returns, and every pair that
\* one augmentation pass returns to it, has one length per row of the tensor.
C2_LengthsMatchBatch ==
  /\ Returned => Len(fwd.res.lengths) = OutBatch
  /\ \A i \in 1..Len(fwd.res.passes) :
       fwd.res.passes[i].status = "ok" =>
         Len(fwd.res.passes[i].lengths) = Len(fwd.res.passes[i].x.rows)

\* a forward call that returned rows from the original batch, from a pass in
\* fixed-batch-size parallel mode and from a transform that returns lengths
C2_Witness ==
  /\ Returned /\ ~fwd.res.fast /\ OutBatch > 0
  /\ args.concat_original /\ args.parallel_augment_fixed_bs
  /\ \E i \in 1..Len(fwd.res.lengths) : fwd.res.lengths[i].by # None
  /\ \E i \in 1..Len(fwd.res.lengths) : fwd.res.lengths[i].by = None

\* C3 as stated: the batch forward returns is never smaller than its input.
C3_OutputAtLeastInput == Returned => OutBatch >= fwd.B

\* C3 amended: the batch forward returns is never smaller than the augment
\* window, hence never smaller than the input when the window is the whole batch.
C3_OutputAtLeastWindow ==
  Returned =>
    /\ OutBatch >= AugWindow
    /\ (args.augment_start_index = 0 /\ self.augment_end_index = fwd.B)
         => OutBatch >= fwd.B

\* a call that augmented a non-empty part of the batch and returned fewer rows
\* than it was given
C3_Witness ==
  /\ Returned /\ ~fwd.res.fast
  /\ 0 < AugWindow /\ AugWindow < fwd.B
  /\ OutBatch = AugWindow

\* the configuration is valid apart from its augmentation counts
OtherValid(a) ==
  /\ a.repeat_is_int /\ a.repeat_augment >= 0
  /\ Len(a.augmentations) > 0
  /\ a.augment_end_index # None => a.augment_end_index >= a.augment_start_index
  /\ a.concat_end_index # None => a.concat_end_index >= a.concat_start_index

\* 0 <= min_augmentations <= max_augmentations, with the defaults filled in
CountsValid(a) ==
  LET mn == IF a.min_augmentations = None THEN DefaultMinAugmentations
            ELSE a.min_augmentations
      mx == IF a.max_augmentations = None THEN Len(a.augmentations)
            ELSE a.max_augmentations
  IN  0 <= mn /\ mn <= mx

\* the configured indices are within the batch of the last forward call
InBounds ==
  /\ self.augment_end_index <= fwd.B /\ args.augment_start_index <= fwd.B
  /\ self.concat_end_index <= fwd.B /\ args.concat_start_index <= fwd.B

\* the Augmenter is accepted, and a forward call on a batch that holds the
\* configured indices returns the augment-window slice of the batch and of the
\* lengths as they came in, without calling a transform
IdentityOnWindow ==
  /\ phase # "rejected"
  /\ (fwd.B # None /\ InBounds) =>
       /\ Returned
       /\ fwd.res.x = SliceTensor(InputTensor(fwd.B, fwd.rank),
                                  args.augment_start_index, self.augment_end_index)
       /\ fwd.res.lengths = Slice(InputLengths(fwd.B),
                                  args.augment_start_index, self.augment_end_index)
       /\ fwd.res.passes = <<>>

\* C4 as stated: repeat_augment = 0, or max_augmentations = 0 with the other
\* options at their defaults or valid, is accepted and forward is the identity
\* on the augment window.
C4_ZeroIsIdentity ==
  ( /\ OtherValid(args)
    /\ \/ args.repeat_augment = 0 /\ CountsValid(args)
       \/ args.max_augmentations = 0 /\ args.min_augmentations \in {None, 0} )
  => IdentityOnWindow

\* C4 amended: the same, where max_augmentations = 0 comes with
\* min_augmentations = 0 (the default min_augmentations of 1 makes
\* max_augmentations = 0 an inverted pair, which __init__ rejects).
C4_ZeroIsIdentityWithMin ==
  ( /\ OtherValid(args) /\ CountsValid(args)
    /\ args.repeat_augment = 0 \/ args.max_augmentations = 0 )
  => IdentityOnWindow

\* forward returned part of a batch through max_augmentations = 0 with
\* concat_original set and repeat_augment > 0
C4_Witness ==
  /\ OtherValid(args) /\ CountsValid(args)
  /\ args.max_augmentations = 0 /\ args.repeat_augment > 0
  /\ args.concat_original
  /\ Returned /\ 0 < OutBatch /\ OutBatch < fwd.B

\* C5 as stated: with concat_original, repeat_augment = 1 and sequential
\* augmentation, forward returns concat-window + augment-window rows for every
\* draw of N_augment.
C5_ConcatPlusAugment ==
  ( /\ Returned /\ args.concat_original /\ args.repeat_augment = 1
    /\ ~args.parallel_augment )
  => OutBatch = ConcatWindow + AugWindow

\* C5 amended: the same for every draw N_augment >= 1 (a draw of 0 takes the
\* fast path, which returns the augment window alone).
C5_ConcatPlusAugmentDrawn ==
  ( /\ Returned /\ args.concat_original /\ args.repeat_augment = 1
    /\ ~args.parallel_augment /\ self.N_augment >= 1 )
  => OutBatch = ConcatWindow + AugWindow

\* a sequential call that concatenated a concat window and a different,
\* non-empty augment window, with min_augmentations = 0
C5_Witness ==
  /\ Returned /\ args.concat_original /\ args.repeat_augment = 1
  /\ ~args.parallel_augment /\ self.N_augment >= 1
  /\ args.min_augmentations = 0
  /\ ConcatWindow > 0 /\ AugWindow > ConcatWindow
  /\ OutBatch = ConcatWindow + AugWindow

\* C6: in fixed-batch-size parallel mode the index ranges handed to the k
\* selected transforms of a pass start at 0, follow one another without gap or
\* overlap, and end at the augment-window size W; each transform gets exactly
\* the rows of its range, and a pass that returns contributes W rows.
C6_PartitionCovers ==
  (args.parallel_augment /\ args.parallel_augment_fixed_bs) =>
    \A i \in 1..Len(fwd.res.passes) :
      LET pass == fwd.res.passes[i]
          calls == pass.calls
      IN  /\ \A k \in 1..Len(calls) :
                /\ calls[k].start <= calls[k].stop
                /\ calls[k].start = IF k = 1 THEN 0 ELSE calls[k - 1].stop
                /\ Len(calls[k].input) = calls[k].stop - calls[k].start
                /\ \A j \in 1..Len(calls[k].input) :
                     calls[k].input[j].src =
                       args.augment_start_index + calls[k].start + j - 1
          /\ Len(calls) = Len(pass.selected) =>
                calls[Len(calls)].stop = AugWindow
          /\ pass.status = "ok" => Len(pass.x.rows) = AugWindow

\* a call in fixed-batch-size parallel mode that returned, with three selected
\* transforms sharing an augment window of two rows
C6_Witness ==
  /\ args.parallel_augment /\ args.parallel_augment_fixed_bs
  /\ Returned /\ ~fwd.res.fast
  /\ AugWindow = 2
  /\ Len(fwd.res.selected) = 3
  /\ fwd.res.passes[1].calls[2].stop = 1


\* temporal extent of the i-th tensor handed to concatenate_outputs, the largest
\* of them, and the number of rows before the i-th tensor
CatExtent(i) == cat.augment_lst[i].dims[1]

CatMaxExtent ==
  CHOOSE m \in {CatExtent(i) : i \in 1..Len(cat.augment_lst)} :
    \A i \in 1..Len(cat.augment_lst) : CatExtent(i) <= m

RECURSIVE CatOffset(_)
CatOffset(i) ==
  IF i <= 1 THEN 0 ELSE CatOffset(i - 1) + Len(cat.augment_lst[i - 1].rows)

CatCalled == cat.out.status # "none"

\* C7: for tensors of rank >= 3 whose temporal extents differ,
\* concatenate_outputs returns a tensor with the largest temporal extent, the
\* feature axes of the inputs, and the rows of the inputs in list order, each
\* padded with zeros on the right of its temporal axis up to that extent.
C7_PadsTemporalAxis ==
  ( /\ CatCalled
    /\ \A i \in 1..Len(cat.augment_lst) : Len(cat.augment_lst[i].dims) >= 2
    /\ \E i \in 1..Len(cat.augment_lst) : CatExtent(i) # CatMaxExtent )
  => /\ cat.out.status = "ok"
     /\ cat.out.x.dims = [cat.augment_lst[1].dims EXCEPT ![1] = CatMaxExtent]
     /\ Len(cat.out.x.rows) =
          CatOffset(Len(cat.augment_lst) + 1)
     /\ \A i \in 1..Len(cat.augment_lst) :
          \A j \in 1..Len(cat.augment_lst[i].rows) :
            cat.out.x.rows[CatOffset(i) + j] =
              [cat.augment_lst[i].rows[j] EXCEPT
                 !.pad.t = CatMaxExtent - CatExtent(i)]

\* a call on three tensors of shapes [1, 5, 2], [1, 8, 2], [1, 5, 2], which
\* torch.cat refused
C7_Witness ==
  /\ cat.out.status = "RuntimeError"
  /\ Len(cat.augment_lst) = 3
  /\ \A i \in 1..3 : /\ Len(cat.augment_lst[i].rows) = 1
                      /\ cat.augment_lst[i].dims = <<CatExtent(i), InputFea>>
  /\ CatExtent(1) = 5 /\ CatExtent(2) = 8 /\ CatExtent(3) = 5

\* C8: the lengths concatenate_outputs returns are, in list order, the lengths
\* of each input multiplied by (extent of its tensor / largest extent); the
\* lengths of a tensor that has the largest extent keep their value.
C8_LengthsRescaled ==
  cat.out.status = "ok" =>
    /\ Len(cat.out.lengths) = CatOffset(Len(cat.augment_lst) + 1)
    /\ \A i \in 1..Len(cat.augment_lst) :
         \A j \in 1..Len(cat.augment_len_lst[i]) :
           LET lin == cat.augment_len_lst[i][j]
               lout == cat.out.lengths[CatOffset(i) + j]
           IN  /\ lout.src = lin.src /\ lout.by = lin.by
               /\ lout.num * lin.den * CatMaxExtent
                    = lin.num * CatExtent(i) * lout.den
               /\ CatExtent(i) = CatMaxExtent =>
                    lout.num * lin.den = lin.num * lout.den

\* a call that returned for tensors of extents 5, 8, 5, each with rows
C8_Witness ==
  /\ cat.out.status = "ok"
  /\ Len(cat.augment_lst) = 3
  /\ CatExtent(1) = 5 /\ CatExtent(2) = 8 /\ CatExtent(3) = 5
  /\ \A i \in 1..3 : Len(cat.augment_lst[i].rows) > 0


\* the labels handed to replicate_labels, and the parts it is to assemble
LabelsIn == Arange(0, fwd.B)

LabelsHead ==
  IF args.concat_original
  THEN Slice(LabelsIn, args.concat_start_index, self.concat_end_index)
  ELSE <<>>

LabelsTiles == IF args.parallel_augment THEN self.N_augment ELSE 1

\* C9: replicate_labels returns labels[concat window] if concat_original, then
\* repeat_augment copies of the block labels[augment window], the block tiled
\* N_augment times in parallel mode (B_aug * N_augment * repeat_augment rows
\* without concat_original), and row j of what it returns is the label of the
\* example that row j of forward's output was derived from.
C9_LabelsFollowForward ==
  lab.status = "ok" =>
    /\ Len(lab.labels) =
         Len(LabelsHead) + args.repeat_augment * LabelsTiles * AugWindow
    /\ \A j \in 1..Len(lab.labels) :
         lab.labels[j] =
           IF j <= Len(LabelsHead)
           THEN args.concat_start_index + j - 1
           ELSE args.augment_start_index
                  + ((j - Len(LabelsHead) - 1) % AugWindow)
    /\ (args.parallel_augment /\ ~args.concat_original) =>
         Len(lab.labels) = AugWindow * self.N_augment * args.repeat_augment
    /\ \A j \in 1..Len(lab.labels) :
         /\ j <= OutBatch
         /\ lab.labels[j] = fwd.res.x.rows[j].src

\* labels replicated after a parallel call with N_augment = 3 and
\* repeat_augment = 2, without concat_original, on a window of two examples
C9_Witness ==
  /\ lab.status = "ok"
  /\ args.parallel_augment /\ ~args.parallel_augment_fixed_bs
  /\ ~args.concat_original
  /\ self.N_augment = 3 /\ args.repeat_augment = 2
  /\ AugWindow = 2 /\ args.augment_start_index = 0
  /\ lab.labels = <<0, 1, 0, 1, 0, 1, 0, 1, 0, 1, 0, 1>>
  /\ OutBatch = AugWindow * 3 * 2

\* C10: without shuffling, a forward call that augments selects the first
\* N_augment registry names in configured order, hands that selection to every
\* one of its passes, which call the transforms in that order; in sequential
\* mode each transform receives the output of the one before it.
C10_SelectionInOrder ==
  (~args.shuffle_augmentations /\ fwd.res.passes # <<>>) =>
    /\ fwd.res.selected = Arange(0, self.N_augment)
    /\ Returned => Len(fwd.res.passes) = args.repeat_augment
    /\ \A i \in 1..Len(fwd.res.passes) :
         LET pass == fwd.res.passes[i]
         IN  /\ pass.selected = fwd.res.selected
             /\ Len(pass.calls) <= Len(pass.selected)
             /\ pass.status = "ok" => Len(pass.calls) = Len(pass.selected)
             /\ \A k \in 1..Len(pass.calls) :
                  /\ pass.calls[k].name = k - 1
                  /\ \A j \in 1..Len(pass.calls[k].input) :
                       pass.calls[k].input[j].hist =
                         IF args.parallel_augment THEN <<>>
                         ELSE Arange(0, k - 1)
             /\ (pass.status = "ok" /\ ~args.parallel_augment) =>
                  \A j \in 1..Len(pass.x.rows) :
                    pass.x.rows[j].hist = Arange(0, self.N_augment)

\* the scenario [DropA, DropB] with min_augmentations = max_augmentations = 2,
\* sequential, repeat_augment = 1: every row went through DropA, then DropB
C10_Witness ==
  /\ ~args.shuffle_augmentations /\ ~args.parallel_augment
  /\ args.augmentations = <<"Drop", "Drop">>
  /\ args.min_augmentations = 2 /\ args.max_augmentations = 2
  /\ args.repeat_augment = 1
  /\ Returned /\ OutBatch = 2
  /\ \A j \in 1..OutBatch : fwd.res.x.rows[j].hist = <<0, 1>>


\* the configuration is one of the listed misconfigurations of __init__
Misconfigured(a) ==
  \/ Len(a.augmentations) = 0
  \/ a.augment_end_index # None /\ a.augment_end_index < a.augment_start_index
  \/ a.concat_end_index # None /\ a.concat_end_index < a.concat_start_index
  \/ ~a.repeat_is_int
  \/ a.repeat_augment < 0

\* a configured augment or concat index is larger than the batch of the call
IndexAboveBatch(a, B) ==
  \/ a.augment_start_index > B
  \/ a.concat_start_index > B
  \/ a.augment_end_index # None /\ a.augment_end_index > B
  \/ a.concat_end_index # None /\ a.concat_end_index > B

\* C11: an empty transform list, an end index below its start index, a negative
\* or non-integer repeat_augment make __init__ raise; a configured index above
\* the batch size makes forward raise before it calls a transform.
C11_MisconfigurationRaises ==
  /\ (Misconfigured(args) /\ phase # "new") =>
        (phase = "rejected" /\ fwd = NoCall)
  /\ (fwd.B # None /\ IndexAboveBatch(args, fwd.B)) =>
        /\ fwd.res.status = "ValueError"
        /\ fwd.res.passes = <<>>
        /\ pc = "halt"

\* forward raised on a batch smaller than the configured concat_end_index, for
\* an Augmenter that leaves concat_original off
C11_Witness ==
  /\ phase = "ready" /\ ~Misconfigured(args)
  /\ ~args.concat_original
  /\ args.concat_end_index = MaxBatch /\ fwd.B = MaxBatch - 1
  /\ fwd.res.status = "ValueError"


\* both counts are configured and min_augmentations > max_augmentations
InvertedCounts(a) ==
  /\ a.min_augmentations # None /\ a.max_augmentations # None
  /\ a.min_augmentations > a.max_augmentations

\* C12: a configured pair with min_augmentations > max_augmentations makes
\* __init__ raise, whatever the number of transforms in the list.
C12_InvertedCountsRaise ==
  (InvertedCounts(args) /\ phase # "new") => phase = "rejected"

\* an Augmenter accepted with min_augmentations = MaxAugs + 2 and
\* max_augmentations = MaxAugs + 1 on MaxAugs transforms, both counts set to
\* MaxAugs, whose forward then applied all the transforms
C12_Witness ==
  /\ InvertedCounts(args) /\ ~Misconfigured(args)
  /\ args.min_augmentations = MaxAugs + 2
  /\ args.max_augmentations = MaxAugs + 1
  /\ Len(args.augmentations) = MaxAugs
  /\ phase = "ready"
  /\ self.min_augmentations = MaxAugs /\ self.max_augmentations = MaxAugs
  /\ Returned /\ self.N_augment = MaxAugs


\* the Augmenter was constructed without augment_end_index and concat_end_index
DefaultEndIndices(a) == a.augment_end_index = None /\ a.concat_end_index = None

\* C13: for an Augmenter constructed without end indices, every forward call,
\* whatever the batch sizes of the calls before it, takes its own batch size as
\* the end of the augment and of the concat window and raises no bounds error.
C13_EndIndicesFollowBatch ==
  (DefaultEndIndices(args) /\ fwd.B # None) =>
     /\ fwd.res.status # "ValueError"
     /\ self.augment_end_index = fwd.B
     /\ self.concat_end_index = fwd.B

\* a call on a batch of one example, after a call on two examples, that raised
\* because the end indices were still those of the earlier batch
C13_Witness ==
  /\ DefaultEndIndices(args)
  /\ args.augment_start_index = 0 /\ args.concat_start_index = 0
  /\ fwd.B = 1
  /\ self.augment_end_index = 2 /\ self.concat_end_index = 2
  /\ fwd.res.status = "ValueError"


\* ------------------------------------------------------- SpectrogramDrop
\* sizes of the spectrograms handed to the transforms of freq_domain.py
SpecBatch == 1

SpecChannels == 2

SpecTime == 3

SpecFea == 2

\* largest drop length and drop count configured
MaxDropLength == 2

MaxDropCount == 2

\* spectrogram.mean().detach(), the fill value when replace_with_zero is off
MeanFill == -1

\* a spectrogram of the given shape, [batch, time, fea] or [batch, channel,
\* time, fea]: its rows as view(-1, time, fea) numbers them, every cell with a
\* value of its own
FdInput(shape) ==
  LET T == shape[Len(shape) - 1]
      F == shape[Len(shape)]
      rows == IF Len(shape) = 4 THEN shape[1] * shape[2] ELSE shape[1]
  IN  [shape |-> shape,
       val |-> [b \in 1..rows |-> [t \in 1..T |-> [f \in 1..F |->
                  1 + ((b - 1) * T + (t - 1)) * F + (f - 1)]]]]

\* SpectrogramDrop.__init__
SpectrogramDrop_init(cfg) ==
  IF cfg.drop_length_low > cfg.drop_length_high
     \/ cfg.drop_count_low > cfg.drop_count_high
  THEN "ValueError" ELSE "ok"

\* the tensors torch.randint(low, high, (rows, cols)) can return; it raises
\* when low >= high, and then there is none to choose: <<>> stands for that
randint(low, high, rows, cols) ==
  IF low < high THEN [1..rows -> [1..cols -> low..(high - 1)]] ELSE {<<>>}

\* mask_len.max(); only taken of a tensor that has elements
TensorMax(t) ==
  CHOOSE m \in {t[b][k] : b \in DOMAIN t, k \in 1..Len(t[1])} :
    \A b \in DOMAIN t, k \in 1..Len(t[1]) : t[b][k] <= m

\* max(1, D, -mask_len.max()), the exclusive upper end of the drawn positions
MaskPosHigh(D, mask_len) == Max2(Max2(1, D), 0 - TensorMax(mask_len))

\* the positions of row b that some chunk [mask_pos, mask_pos + mask_len) covers
DropMask(D, n_masks, mask_len, mask_pos, b) ==
  {d \in 0..(D - 1) :
     \E k \in 1..n_masks :
       mask_pos[b][k] <= d /\ d < mask_pos[b][k] + mask_len[b][k]}

\* spectrogram.shape of the tensor SpectrogramDrop.forward works on and returns:
\* a rank-4 input is replaced by its view(-1, shape[2], shape[3])
DropShape(x) ==
  <<Len(x.val), x.shape[Len(x.shape) - 1], x.shape[Len(x.shape)]>>

\* SpectrogramDrop.forward for the draws n_masks, mask_len and mask_pos
SpectrogramDrop_forward(cfg, x, n_masks, mask_len, mask_pos) ==
  IF cfg.drop_length_low >= cfg.drop_length_high
  THEN [status |-> "RuntimeError", shape |-> <<>>, val |-> <<>>]
  ELSE IF n_masks = 0 \/ Len(x.val) = 0
  THEN [status |-> "RuntimeError", shape |-> <<>>, val |-> <<>>]
  ELSE
    [status |-> "ok",
     shape |-> DropShape(x),
     val |-> [b \in 1..Len(x.val) |->
               [t \in 1..DropShape(x)[2] |->
                 [f \in 1..DropShape(x)[3] |->
                    IF (IF cfg.dim = 1 THEN t ELSE f) - 1 \in
                         DropMask(IF cfg.dim = 1 THEN DropShape(x)[2]
                                  ELSE DropShape(x)[3],
                                  n_masks, mask_len, mask_pos, b)
                    THEN IF cfg.replace_with_zero THEN 0 ELSE MeanFill
                    ELSE x.val[b][t][f]]]]]

\* the configurations of SpectrogramDrop: lengths and counts, in order, equal
\* and inverted
DropConfigs ==
  [drop_length_low : 0..MaxDropLength, drop_length_high : 0..MaxDropLength,
   drop_count_low : 0..MaxDropCount, drop_count_high : 0..MaxDropCount,
   replace_with_zero : BOOLEAN, dim : {1, 2}]

FdShapes ==
  {<<SpecBatch, SpecTime, SpecFea>>,
   <<SpecBatch, SpecChannels, SpecTime, SpecFea>>}

NoDraws == [n_masks |-> None, mask_len |-> <<>>, mask_pos |-> <<>>]

NoOut == [status |-> "none", shape |-> <<>>, val |-> <<>>]

InitDrop ==
  /\ args = DefaultArgs
  /\ phase = "new"
  /\ self = NoFields
  /\ pc = "forward"
  /\ fwd = NoCall
  /\ lab = NoLabels
  /\ cat = NoCat
  /\ \E cfg \in DropConfigs, shape \in FdShapes :
       fd = [cls |-> "SpectrogramDrop", cfg |-> cfg, phase |-> "new",
             x |-> FdInput(shape), draws |-> NoDraws, out |-> NoOut]

\* drop = SpectrogramDrop(**cfg)
DropConstruct ==
  /\ fd.cls = "SpectrogramDrop" /\ fd.phase = "new"
  /\ fd' = [fd EXCEPT !.phase = IF SpectrogramDrop_init(fd.cfg) = "ok"
                                THEN "ready" ELSE "rejected"]
  /\ UNCHANGED <<args, phase, self, pc, fwd, lab, cat>>

\* out = drop(spectrogram): the three draws, then the fill, which masked_fill_
\* makes in the storage of the argument
DropForward ==
  /\ fd.cls = "SpectrogramDrop" /\ fd.phase = "ready"
  /\ fd.out.status = "none"
  /\ \E n_masks \in fd.cfg.drop_count_low..fd.cfg.drop_count_high :
       \E mask_len \in randint(fd.cfg.drop_length_low, fd.cfg.drop_length_high,
                               Len(fd.x.val), n_masks) :
         \E mask_pos \in
              IF mask_len = <<>> \/ n_masks = 0 THEN {<<>>}
              ELSE randint(0,
                           MaskPosHigh(IF fd.cfg.dim = 1 THEN DropShape(fd.x)[2]
                                       ELSE DropShape(fd.x)[3], mask_len),
                           Len(fd.x.val), n_masks) :
           \E r \in {SpectrogramDrop_forward(fd.cfg, fd.x, n_masks, mask_len,
                                             mask_pos)} :
             fd' = [fd EXCEPT
                      !.draws = [n_masks |-> n_masks, mask_len |-> mask_len,
                                 mask_pos |-> mask_pos],
                      !.out = r,
                      !.x = IF r.status = "ok" THEN [@ EXCEPT !.val = r.val]
                            ELSE @]
  /\ UNCHANGED <<args, phase, self, pc, fwd, lab, cat>>

NextDrop == DropConstruct \/ DropForward

SpecDrop == InitDrop /\ [][NextDrop]_vars

\* C14: for every configuration the constructor accepts and every input of
\* rank 3 or 4, forward returns a tensor of the shape of its input; with
\* replace_with_zero every position inside a sampled chunk is 0 and every
\* position outside all chunks has its input value.
C14_DropKeepsShape ==
  (fd.cls = "SpectrogramDrop" /\ fd.out.status # "none") =>
     /\ fd.out.status = "ok"
     /\ fd.out.shape = fd.x.shape
     /\ fd.cfg.replace_with_zero =>
          \A b \in 1..Len(fd.out.val) :
            \A t \in 1..Len(fd.out.val[b]) :
              \A f \in 1..Len(fd.out.val[b][t]) :
                fd.out.val[b][t][f] =
                  IF \E k \in 1..fd.draws.n_masks :
                       LET d == (IF fd.cfg.dim = 1 THEN t ELSE f) - 1
                       IN  /\ fd.draws.mask_pos[b][k] <= d
                           /\ d < fd.draws.mask_pos[b][k]
                                    + fd.draws.mask_len[b][k]
                  THEN 0
                  ELSE FdInput(fd.x.shape).val[b][t][f]

\* a rank-4 input of shape [1, 2, 3, 2] for which forward returned a tensor of
\* shape [2, 3, 2], with a chunk zeroed
C14_Witness ==
  /\ fd.cls = "SpectrogramDrop" /\ fd.out.status = "ok"
  /\ Len(fd.x.shape) = 4
  /\ fd.out.shape = <<SpecBatch * SpecChannels, SpecTime, SpecFea>>
  /\ fd.cfg.replace_with_zero /\ fd.cfg.dim = 1
  /\ fd.out.val[1][1][1] = 0 /\ fd.out.val[1][SpecTime][1] # 0


\* ------------------------------------------------------------ Warping
\* largest warp_window configured and longest axis of the spectrograms warped
MaxWarpWindow == 3

MaxWarpLen == 6

\* spectrogram.transpose(1, 2) of a [batch, time, fea] tensor
Transpose12(x) ==
  [shape |-> <<x.shape[1], x.shape[3], x.shape[2]>>,
   val |-> [b \in 1..x.shape[1] |-> [f \in 1..x.shape[3] |->
              [t \in 1..x.shape[2] |-> x.val[b][t][f]]]]]

\* the tensor Warping.forward works on: the argument, transposed if dim == 2
WarpView(cfg, x) == IF cfg.dim = 2 THEN Transpose12(x) ELSE x

\* len_original = spectrogram.shape[2] of the unsqueezed tensor
WarpLen(cfg, x) == WarpView(cfg, x).shape[2]

\* "if len_original - window <= window"
WarpTooShort(cfg, x) == WarpLen(cfg, x) - cfg.warp_window <= cfg.warp_window

\* the values torch.randint(low, high, (1,))[0] can return; none if low >= high
randint1(low, high) == IF low < high THEN low..(high - 1) ELSE {}

NoWarpDraws == [c |-> None, w |-> None]

\* "if self.dim == 2: spectrogram = spectrogram.transpose(1, 2)" at the end of
\* forward; y is the warped tensor in the layout forward worked on
WarpBack(cfg, y) == IF cfg.dim = 2 THEN Transpose12(y) ELSE y

\* Warping.forward for the draws c and w (None: torch.randint raised, its
\* range being empty); interpolate raises on a piece of width 0.  The values
\* that interpolate writes are not modelled: `pieces` records the widths of
\* the two pieces before and after resampling.
Warping_forward(cfg, x, c, w) ==
  IF WarpTooShort(cfg, x)
  THEN [status |-> "ok", shape |-> WarpView(cfg, x).shape,
        val |-> WarpView(cfg, x).val, warped |-> FALSE,
        pieces |-> <<>>]
  ELSE IF c = None \/ w = None
  THEN [status |-> "RuntimeError", shape |-> <<>>, val |-> <<>>,
        warped |-> FALSE, pieces |-> <<>>]
  ELSE IF c < 1 \/ w < 1 \/ WarpLen(cfg, x) - w < 1
  THEN [status |-> "RuntimeError", shape |-> <<>>, val |-> <<>>,
        warped |-> FALSE, pieces |-> <<>>]
  ELSE [status |-> "ok",
        shape |-> WarpBack(cfg, [shape |-> WarpView(cfg, x).shape,
                                 val |-> WarpView(cfg, x).val]).shape,
        val |-> <<>>, warped |-> TRUE,
        pieces |-> [left_in |-> c, left_out |-> w,
                    right_in |-> WarpLen(cfg, x) - c,
                    right_out |-> WarpLen(cfg, x) - w]]

WarpConfigs == [warp_window : 0..MaxWarpWindow, dim : {1, 2}]

WarpShapes ==
  {<<SpecBatch, T, F>> : T \in 1..MaxWarpLen, F \in {SpecFea, SpecTime}}

InitWarp ==
  /\ args = DefaultArgs
  /\ phase = "new"
  /\ self = NoFields
  /\ pc = "forward"
  /\ fwd = NoCall
  /\ lab = NoLabels
  /\ cat = NoCat
  /\ \E cfg \in WarpConfigs, shape \in WarpShapes :
       fd = [cls |-> "Warping", cfg |-> cfg, phase |-> "new",
             x |-> FdInput(shape), draws |-> NoWarpDraws, out |-> NoOut]

\* warp = Warping(warp_window=..., dim=...): nothing is validated
WarpConstruct ==
  /\ fd.cls = "Warping" /\ fd.phase = "new"
  /\ fd' = [fd EXCEPT !.phase = "ready"]
  /\ UNCHANGED <<args, phase, self, pc, fwd, lab, cat>>

\* out = warp(spectrogram): the no-op, or the draws of c and w and the warp
WarpForward ==
  /\ fd.cls = "Warping" /\ fd.phase = "ready"
  /\ fd.out.status = "none"
  /\ \E c \in IF WarpTooShort(fd.cfg, fd.x) THEN {None}
              ELSE randint1(fd.cfg.warp_window,
                            WarpLen(fd.cfg, fd.x) - fd.cfg.warp_window) :
       \E w \in IF c = None THEN {None}
                ELSE IF randint1(c - fd.cfg.warp_window,
                                 c + fd.cfg.warp_window) = {}
                THEN {None}
                ELSE {v + 1 : v \in randint1(c - fd.cfg.warp_window,
                                             c + fd.cfg.warp_window)} :
         fd' = [fd EXCEPT !.draws = [c |-> c, w |-> w],
                          !.out = Warping_forward(fd.cfg, fd.x, c, w)]
  /\ UNCHANGED <<args, phase, self, pc, fwd, lab, cat>>

NextWarp == WarpConstruct \/ WarpForward

SpecWarp == InitWarp /\ [][NextWarp]_vars

\* C15: for every axis length L and every window < L/2, window 0 and 1
\* included, forward draws c in [window, L - window) and w in
\* [c - window + 1, c + window], both from non-empty ranges, with
\* 1 <= w <= L - 1, and returns a tensor of the shape of its input.
C15_WarpKeepsShape ==
  ( /\ fd.cls = "Warping" /\ fd.out.status # "none"
    /\ 2 * fd.cfg.warp_window < WarpLen(fd.cfg, fd.x) ) =>
     /\ fd.draws.c # None /\ fd.draws.w # None
     /\ fd.cfg.warp_window <= fd.draws.c
     /\ fd.draws.c < WarpLen(fd.cfg, fd.x) - fd.cfg.warp_window
     /\ fd.draws.c - fd.cfg.warp_window + 1 <= fd.draws.w
     /\ fd.draws.w <= fd.draws.c + fd.cfg.warp_window
     /\ 1 <= fd.draws.w /\ fd.draws.w <= WarpLen(fd.cfg, fd.x) - 1
     /\ fd.out.status = "ok"
     /\ fd.out.shape = fd.x.shape

\* a call with warp_window = 0 that drew a center c and then raised, the range
\* [c, c) of w being empty
C15_Witness ==
  /\ fd.cls = "Warping" /\ fd.cfg.warp_window = 0
  /\ fd.draws.c # None /\ fd.draws.w = None
  /\ fd.out.status = "RuntimeError"

\* C16: when L - window <= window on the warped axis, forward returns its
\* input unchanged, with the shape and the axis order of the input, for dim = 1
\* and for dim = 2.
C16_ShortAxisIsNoOp ==
  ( /\ fd.cls = "Warping" /\ fd.out.status # "none"
    /\ WarpTooShort(fd.cfg, fd.x) ) =>
     /\ fd.out.status = "ok"
     /\ fd.out.shape = fd.x.shape
     /\ fd.out.val = fd.x.val

\* frequency warping of a [1, 3, 2] input with a window too large for the two
\* frequency bins: forward returned a tensor of shape [1, 2, 3]
C16_Witness ==
  /\ fd.cls = "Warping" /\ fd.cfg.dim = 2
  /\ fd.x.shape = <<SpecBatch, 3, 2>>
  /\ WarpTooShort(fd.cfg, fd.x)
  /\ fd.out.status = "ok" /\ ~fd.out.warped
  /\ fd.out.shape = <<SpecBatch, 2, 3>>


\* the class of the transform of a call
CallClass(call) == args.augmentations[call.name + 1]

\* C17: in every pass and mode a transform gets lengths only if it declared the
\* argument; the iteration of a transform that returns a 2-tuple records the
\* lengths it returned; that of a transform that returns a tensor records the
\* input lengths of the rows it processed, whatever the transforms before it
\* returned; a tuple of another arity raises.
C17_LengthsOfProcessedRows ==
  \A i \in 1..Len(fwd.res.passes) :
    \A k \in 1..Len(fwd.res.passes[i].calls) :
      LET call == fwd.res.passes[i].calls[k]
      IN  /\ call.with_lengths = lengths_arg_exists(CallClass(call))
          /\ CallClass(call) = "Triple" =>
               (~call.completed /\ fwd.res.passes[i].status = "ValueError")
          /\ CallClass(call) = "Speed" =>
               (call.completed /\ call.lengths = call.returned)
          /\ CallClass(call) = "Drop" =>
               (call.completed /\ call.lengths = call.in_lengths)

\* a parallel pass in which a transform that returns a tensor came after one
\* that returned lengths, and had the lengths of that one recorded for its rows
C17_Witness ==
  /\ args.parallel_augment /\ ~args.parallel_augment_fixed_bs
  /\ Returned /\ Len(fwd.res.passes) >= 1
  /\ Len(fwd.res.passes[1].calls) >= 2
  /\ CallClass(fwd.res.passes[1].calls[1]) = "Speed"
  /\ CallClass(fwd.res.passes[1].calls[2]) = "Drop"
  /\ fwd.res.passes[1].calls[2].completed
  /\ fwd.res.passes[1].calls[2].lengths = fwd.res.passes[1].calls[1].returned
  /\ fwd.res.passes[1].calls[2].lengths # fwd.res.passes[1].calls[2].in_lengths


\* C18: on an Augmenter that was constructed, at any time,
\* 0 <= min_augmentations <= max_augmentations <= number of transforms;
\* min_augmentations is 1 and max_augmentations the number of transforms when
\* unset, a value above the number of transforms is that number, any other
\* value is kept; and the N_augment of every forward call is within
\* [min_augmentations, max_augmentations].
C18_CountsWithinRegistry ==
  phase = "ready" =>
    /\ 0 <= self.min_augmentations
    /\ self.min_augmentations <= self.max_augmentations
    /\ self.max_augmentations <= Len(args.augmentations)
    /\ self.min_augmentations =
         IF args.min_augmentations = None THEN DefaultMinAugmentations
         ELSE Min2(args.min_augmentations, Len(args.augmentations))
    /\ self.max_augmentations =
         IF args.max_augmentations = None THEN Len(args.augmentations)
         ELSE Min2(args.max_augmentations, Len(args.augmentations))
    /\ self.N_augment # None =>
         /\ self.min_augmentations <= self.N_augment
         /\ self.N_augment <= self.max_augmentations

\* a forward call that drew N_augment = max_augmentations, the number of
\* transforms that max_augmentations = MaxAugs + 1 was clamped to, above the
\* default min_augmentations of 1
C18_Witness ==
  /\ phase = "ready" /\ Returned
  /\ args.min_augmentations = None /\ self.min_augmentations = 1
  /\ args.max_augmentations = MaxAugs + 1 /\ self.max_augmentations = MaxAugs
  /\ self.N_augment = self.max_augmentations


\* the rows of the concat window at the head of the tensor forward returned
\* are the rows of the caller's batch, in order and as they came in
HeadIsOriginal ==
  \A j \in 1..ConcatWindow :
    /\ j <= OutBatch
    /\ fwd.res.x.rows[j].src = args.concat_start_index + j - 1
    /\ fwd.res.x.rows[j].hist = <<>>

\* the rows and lengths the call handed to a transform are un-augmented
SeesOriginal(call) ==
  /\ \A j \in 1..Len(call.input) : call.input[j].hist = <<>>
  /\ \A j \in 1..Len(call.in_lengths) : call.in_lengths[j].by = None

====
